---- MODULE Spec2Model ----
(***************************************************************************)
(* Model of the chunking + vector-store core of the repository:            *)
(*   scripts/vector_store.py     VectorStore (index, metadata, save/load)  *)
(*   scripts/document_parser.py  DocumentParser.chunk_text                 *)
(*                                                                         *)
(* Three specifications share the module.  Spec drives a VectorStore (and  *)
(* its two persisted files) through construction, add_documents, search,   *)
(* save and clear, starting on a model directory in any state; FreshSpec   *)
(* does the same starting on an empty directory.  ChunkSpec runs           *)
(* chunk_text, one loop iteration per step, on every text / chunk_size /   *)
(* overlap of the bounded input space.                                     *)
(*                                                                         *)
(* Texts are sequences of one-character strings.  The embedding model and  *)
(* the FAISS flat index are external libraries: a vector is represented by *)
(* its dimension and a direction code, the L2 distance by the squared      *)
(* difference of the codes.                                                *)
(***************************************************************************)
EXTENDS Integers, Sequences, FiniteSets, TLC

VARIABLES
    index,        \* self.index: absent (None) or a flat index (dimension, vectors)
    metadata,     \* self.metadata: list of metadata records
    embedDim,     \* output dimension of self.embedder
    indexFile,    \* models/faiss_index.bin
    metaFile,     \* models/faiss_metadata.json
    outcome,      \* what the last call did: operation, error raised, value returned
    text,         \* chunk_text: argument text
    chunk_size,   \* chunk_text: argument chunk_size
    overlap,      \* chunk_text: argument overlap
    start,        \* chunk_text: local start
    chunks,       \* chunk_text: local chunks
    cuts,         \* chunk_text: the <<start, end>> of every window cut so far
    cpc           \* chunk_text: position ("idle", "call", "loop", "done")

storeVars == <<index, metadata, embedDim, indexFile, metaFile, outcome>>
chunkVars == <<text, chunk_size, overlap, start, chunks, cuts, cpc>>
vars == <<index, metadata, embedDim, indexFile, metaFile, outcome,
          text, chunk_size, overlap, start, chunks, cuts, cpc>>

Min(a, b) == IF a < b THEN a ELSE b
Max(a, b) == IF a > b THEN a ELSE b

(***************************************************************************)
(* Bounds of the model.                                                    *)
(***************************************************************************)
MaxVectors == 2     \* most vectors (and metadata records) a store holds
MaxBatch == 2       \* longest texts / metadata argument of one add_documents
MaxK == 3           \* largest k passed to search
MaxTextLen == 8     \* longest text given to chunk_text
MaxChunkSize == 7   \* largest chunk_size (and overlap) given to chunk_text

(***************************************************************************)
(* Program constants.                                                      *)
(***************************************************************************)
Dimension == 384    \* VectorStore.__init__ default dimension
PreviewLen == 100   \* default metadata keeps text[:100]

\* Output dimensions of the embedding models a store may be built with:
\* the configured one (all-MiniLM-L6-v2) and a 768-wide one.
EmbedDims == {Dimension, 2 * Dimension}

(***************************************************************************)
(* Values.                                                                 *)
(***************************************************************************)
DocTexts == {<<"a">>, <<"b">>}
Queries == {<<"a">>}

\* self.embedder.encode + faiss.normalize_L2: deterministic per text.
Direction(t) == IF t = <<>> THEN 0 ELSE IF t[1] = "a" THEN 1 ELSE 2
Embed(t, dim) == [d |-> dim, dir |-> Direction(t)]
EmbedAll(texts, dim) == [i \in 1..Len(texts) |-> Embed(texts[i], dim)]

\* IndexFlatL2 distance between two stored directions.
Distance(u, v) == (u.dir - v.dir) * (u.dir - v.dir)

\* similarity = 1 / (1 + distance), kept as the fraction <<numerator, denominator>>.
Similarity(dist) == <<1, 1 + dist>>

\* A metadata record is a one-entry dict {key: val}; ktype is the Python type
\* of the key.
RecStr == [ktype |-> "str", key |-> "1", val |-> <<"x">>]
RecInt == [ktype |-> "int", key |-> "1", val |-> <<"x">>]
\* Records a caller passes to add_documents; RecStr is what RecInt reads back as.
CallerRecords == {RecInt}

\* {'text': text[:100]}
Preview(t) == SubSeq(t, 1, Min(Len(t), PreviewLen))
DefaultRecord(t) == [ktype |-> "str", key |-> "text", val |-> Preview(t)]
DefaultMetadata(texts) == [i \in 1..Len(texts) |-> DefaultRecord(texts[i])]

\* self.index = None
NoIndex == [present |-> FALSE, d |-> 0, vecs |-> <<>>]

\* _create_index: every supported index_type builds IndexFlatL2(self.dimension).
CreateIndex == [present |-> TRUE, d |-> Dimension, vecs |-> <<>>]

\* index.ntotal
NTotal(idx) == Len(idx.vecs)

\* json.dump / json.load of the metadata list: a JSON object key is a string,
\* so a non-string key comes back as its string form.
JsonObject(rec) == [rec EXCEPT !.ktype = "str"]
JsonDump(recs) == [i \in 1..Len(recs) |-> JsonObject(recs[i])]
JsonLoad(content) == content

\* Files: absent, unreadable, or holding content.
AbsentIndexFile == [state |-> "absent", d |-> 0, vecs |-> <<>>]
CorruptIndexFile == [state |-> "corrupt", d |-> 0, vecs |-> <<>>]
AbsentMetaFile == [state |-> "absent", recs |-> <<>>]
CorruptMetaFile == [state |-> "corrupt", recs |-> <<>>]
\* Variant of WriteIndex: a fresh index of the same dimension is written.
WriteIndexFresh(idx) == [state |-> "ok", d |-> idx.d, vecs |-> <<>>]

\* faiss.write_index / faiss.read_index
WriteIndex(idx) == [state |-> "ok", d |-> idx.d, vecs |-> idx.vecs]
ReadIndex(file) == [present |-> TRUE, d |-> file.d, vecs |-> file.vecs]
WriteMetadata(recs) == [state |-> "ok", recs |-> JsonDump(recs)]

SeqsUpTo(S, n) == UNION {[1..m -> S] : m \in 0..n}

(***************************************************************************)
(* VectorStore: pure parts.                                                *)
(***************************************************************************)
\* The state of a store right after lines 47-48 of __init__.
EmptyStore == [index |-> NoIndex, metadata |-> <<>>]

\* Variant of LoadFailed: the handler resets the metadata only.
LoadFailedKeepsIndex(loadedIndex) == [index |-> loadedIndex, metadata |-> <<>>]

\* The except branch of _load_index: whatever was loaded so far is dropped.
LoadFailed(loadedIndex) == EmptyStore

\* _load_index: the store a process starts with, given the two files.
LoadIndex(ifile, mfile) ==
    IF ifile.state # "absent" /\ mfile.state # "absent"
    THEN IF ifile.state = "corrupt"
         THEN LoadFailed(NoIndex)
         ELSE IF mfile.state = "corrupt"
              THEN LoadFailed(ReadIndex(ifile))
              ELSE [index |-> ReadIndex(ifile), metadata |-> JsonLoad(mfile.recs)]
    ELSE EmptyStore

\* index.add(embeddings): FAISS asserts the width of the rows.
IndexAccepts(idx, emb) == \A i \in 1..Len(emb) : emb[i].d = idx.d
IndexAdd(idx, emb) == [idx EXCEPT !.vecs = @ \o emb]

\* The records add_documents appends: "if metadata:" is false for None and [].
RecordsToStore(texts, given, recs) ==
    IF given /\ recs # <<>> THEN recs ELSE DefaultMetadata(texts)

\* index.search(query, k) of a flat index: the k stored vectors closest to the
\* query, ascending distance, equal distances in insertion order.  idx is the
\* 0-based position FAISS reports.
Closest(vecs, qv, cand) ==
    CHOOSE i \in cand : \A j \in cand :
        \/ Distance(qv, vecs[i]) < Distance(qv, vecs[j])
        \/ Distance(qv, vecs[i]) = Distance(qv, vecs[j]) /\ i <= j

RECURSIVE Rank(_, _, _, _)
Rank(vecs, qv, cand, k) ==
    IF k = 0 \/ cand = {} THEN <<>>
    ELSE LET i == Closest(vecs, qv, cand)
         IN <<[distance |-> Distance(qv, vecs[i]), idx |-> i - 1]>>
                \o Rank(vecs, qv, cand \ {i}, k - 1)

IndexSearch(idx, qv, k) == Rank(idx.vecs, qv, 1..NTotal(idx), k)

\* k = min(k, self.index.ntotal)
ClampK(k, idx) == Min(k, NTotal(idx))

\* Variant of Results: a kept hit is paired with the record at its rank.
ResultsByRank(hits, meta) ==
    LET kept == SelectSeq(hits, LAMBDA h : h.idx < Len(meta))
    IN [i \in 1..Len(kept) |-> <<Similarity(kept[i].distance), meta[i]>>]

\* The loop of search: a hit is kept when idx < len(self.metadata).
HitKept(hit, meta) == hit.idx < Len(meta)
Results(hits, meta) ==
    LET kept == SelectSeq(hits, LAMBDA h : HitKept(h, meta))
    IN [i \in 1..Len(kept) |->
            <<Similarity(kept[i].distance), meta[kept[i].idx + 1]>>]

\* Variant of NothingToSearch: only the ntotal test, on an index taken to exist.
NothingToSearchNoNoneTest(idx) == idx.present /\ NTotal(idx) = 0

\* The early return of search.
NothingToSearch(idx) == ~idx.present \/ NTotal(idx) = 0

\* search(query, k) on a store: the error raised (if any) and the list returned.
Search(idx, meta, dim, query, k) ==
    IF NothingToSearch(idx) THEN [err |-> "none", ret |-> <<>>]
    ELSE IF dim # idx.d THEN [err |-> "AssertionError", ret |-> <<>>]
    ELSE [err |-> "none",
          ret |-> Results(IndexSearch(idx, Embed(query, dim), ClampK(k, idx)), meta)]

(***************************************************************************)
(* VectorStore: operations.                                                *)
(***************************************************************************)
Done(op, err, ret) == [op |-> op, err |-> err, ret |-> ret]

\* VectorStore(...): a process builds a store on the model directory.
ConstructCall(dim) ==
    /\ embedDim' = dim
    /\ index' = LoadIndex(indexFile, metaFile).index
    /\ metadata' = LoadIndex(indexFile, metaFile).metadata
    /\ outcome' = Done("construct", "none", <<>>)
    /\ UNCHANGED <<indexFile, metaFile>>

Construct == \E dim \in EmbedDims : ConstructCall(dim)

\* add_documents(texts, metadata): given is FALSE when metadata is None.
AddDocumentsCall(texts, given, recs) ==
    /\ NTotal(index) + Len(texts) <= MaxVectors
    /\ Len(metadata) + Len(RecordsToStore(texts, given, recs)) <= MaxVectors
    /\ UNCHANGED <<embedDim, indexFile, metaFile>>
    /\ IF texts = <<>>
       THEN /\ outcome' = Done("add_documents", "none", <<>>)
            /\ UNCHANGED <<index, metadata>>
       ELSE LET embeddings == EmbedAll(texts, embedDim)
                created == IF index.present THEN index ELSE CreateIndex
            IN IF ~IndexAccepts(created, embeddings)
               THEN /\ index' = created
                    /\ UNCHANGED metadata
                    /\ outcome' = Done("add_documents", "AssertionError", <<>>)
               ELSE /\ index' = IndexAdd(created, embeddings)
                    /\ metadata' = metadata \o RecordsToStore(texts, given, recs)
                    /\ outcome' = Done("add_documents", "none", <<>>)

AddDocuments ==
    \E texts \in SeqsUpTo(DocTexts, MaxBatch), given \in BOOLEAN,
       recs \in SeqsUpTo(CallerRecords, MaxBatch) :
        /\ ~given => recs = <<>>
        /\ AddDocumentsCall(texts, given, recs)

\* search(query, k)
SearchCall(query, k) ==
    /\ outcome' = LET r == Search(index, metadata, embedDim, query, k)
                  IN Done("search", r.err, r.ret)
    /\ UNCHANGED <<index, metadata, embedDim, indexFile, metaFile>>

SearchStore == \E query \in Queries, k \in 1..MaxK : SearchCall(query, k)

\* Variant of SaveCall: no early return, a store without index is written as
\* an empty index and its metadata list.
SaveCallAlways(defaultIndexPath, defaultMetadataPath) ==
    /\ outcome' = Done("save", "none", <<>>)
    /\ UNCHANGED <<index, metadata, embedDim>>
    /\ indexFile' = IF defaultIndexPath
                    THEN WriteIndex(IF index.present THEN index ELSE CreateIndex)
                    ELSE indexFile
    /\ metaFile' = IF defaultMetadataPath THEN WriteMetadata(metadata) ELSE metaFile

\* save(index_path, metadata_path): a flag is TRUE when the argument is left
\* None, so that the default file is the one written.
SaveCall(defaultIndexPath, defaultMetadataPath) ==
    /\ outcome' = Done("save", "none", <<>>)
    /\ UNCHANGED <<index, metadata, embedDim>>
    /\ IF ~index.present
       THEN UNCHANGED <<indexFile, metaFile>>
       ELSE /\ indexFile' = IF defaultIndexPath THEN WriteIndex(index) ELSE indexFile
            /\ metaFile' = IF defaultMetadataPath THEN WriteMetadata(metadata)
                           ELSE metaFile

\* The calls made: both paths left to their defaults, or both given.
SavePaths == {<<TRUE, TRUE>>, <<FALSE, FALSE>>}
Save == \E paths \in SavePaths : SaveCall(paths[1], paths[2])

\* Variant of Clear: the persisted files are removed with the in-memory state.
ClearAndDelete ==
    /\ index' = NoIndex
    /\ metadata' = <<>>
    /\ outcome' = Done("clear", "none", <<>>)
    /\ indexFile' = AbsentIndexFile
    /\ metaFile' = AbsentMetaFile
    /\ UNCHANGED embedDim

\* clear()
Clear ==
    /\ index' = NoIndex
    /\ metadata' = <<>>
    /\ outcome' = Done("clear", "none", <<>>)
    /\ UNCHANGED <<embedDim, indexFile, metaFile>>

(***************************************************************************)
(* The store's specification.                                              *)
(***************************************************************************)
\* Files a model directory may hold before the first store is built on it.
InitIndexFiles ==
    {AbsentIndexFile, CorruptIndexFile}
        \cup {WriteIndex(IndexAdd(CreateIndex, EmbedAll(ts, Dimension))) :
                ts \in SeqsUpTo({<<"a">>}, 1)}
InitMetaFiles ==
    {AbsentMetaFile, CorruptMetaFile}
        \cup {WriteMetadata(DefaultMetadata(ts)) : ts \in SeqsUpTo({<<"a">>}, 1)}

ChunkIdle ==
    /\ text = <<>>
    /\ chunk_size = 1
    /\ overlap = 0
    /\ start = 0
    /\ chunks = <<>>
    /\ cuts = <<>>
    /\ cpc = "idle"

Init ==
    /\ indexFile \in InitIndexFiles
    /\ metaFile \in InitMetaFiles
    /\ embedDim \in EmbedDims
    /\ index = LoadIndex(indexFile, metaFile).index
    /\ metadata = LoadIndex(indexFile, metaFile).metadata
    /\ outcome = Done("construct", "none", <<>>)
    /\ ChunkIdle

Next ==
    \/ Construct /\ UNCHANGED chunkVars
    \/ AddDocuments /\ UNCHANGED chunkVars
    \/ SearchStore /\ UNCHANGED chunkVars
    \/ Save /\ UNCHANGED chunkVars
    \/ Clear /\ UNCHANGED chunkVars

Spec == Init /\ [][Next]_vars

(***************************************************************************)
(* DocumentParser.chunk_text: pure parts.                                  *)
(***************************************************************************)
\* Characters of the texts given to chunk_text.  A "." that no blank follows
\* is an ordinary character to the chunker.
Chars == {".", " "}
Whitespace == {" ", "\n"}

\* The terminator pairs, in the order the for loop tries them.
Puncts == << <<".", " ">>, <<".", "\n">>, <<"!", " ">>, <<"!", "\n">>,
             <<"?", " ">>, <<"?", "\n">> >>

\* Python's s[i:j] (0-based, negative positions count from the end).
SliceBound(n, i) == IF i < 0 THEN Max(n + i, 0) ELSE Min(i, n)
PySlice(s, i, j) ==
    LET lo == SliceBound(Len(s), i)
        hi == SliceBound(Len(s), j)
    IN IF lo < hi THEN SubSeq(s, lo + 1, hi) ELSE <<>>

\* str.strip()
Strip(s) ==
    LET solid == {i \in 1..Len(s) : s[i] \notin Whitespace}
    IN IF solid = {} THEN <<>>
       ELSE SubSeq(s, CHOOSE i \in solid : \A j \in solid : i <= j,
                      CHOOSE i \in solid : \A j \in solid : i >= j)

\* chunk.rfind(punct): 0-based position of the last occurrence, -1 if none.
RFind(chunk, punct) ==
    LET hits == {i \in 0..(Len(chunk) - 2) :
                    chunk[i + 1] = punct[1] /\ chunk[i + 2] = punct[2]}
    IN IF hits = {} THEN -1 ELSE CHOOSE i \in hits : \A j \in hits : i >= j

\* last_punct > chunk_size * 0.7.  The float product is compared with an
\* integer; for chunk sizes that are no multiple of 10 this is the exact
\* comparison 10 * last_punct > 7 * chunk_size.
InLastPart(last_punct, size) == 10 * last_punct > 7 * size

\* The for loop over the terminator pairs: the rfind of the first pair, in
\* list order, that lies in the last part of the window; -1 if none does.
RECURSIVE Boundary(_, _, _)
Boundary(chunk, size, n) ==
    IF n > Len(Puncts) THEN -1
    ELSE LET last_punct == RFind(chunk, Puncts[n])
         IN IF InLastPart(last_punct, size) THEN last_punct
            ELSE Boundary(chunk, size, n + 1)

\* One window: text[start:start+chunk_size], cut back to a sentence boundary
\* when it does not reach the end of the text.
Window(txt, from, size) ==
    LET end == from + size
        chunk == PySlice(txt, from, end)
        last_punct == IF end < Len(txt) THEN Boundary(chunk, size, 1) ELSE -1
    IN IF last_punct >= 0
       THEN [chunk |-> SubSeq(chunk, 1, last_punct + 1),
             end |-> from + last_punct + 1]
       ELSE [chunk |-> chunk, end |-> end]

\* Variant of NextStart: the next window starts one character late.
NextStartLate(end, lap) == end - lap + 1

\* start = end - overlap
NextStart(end, lap) == end - lap

\* Iterations after which the model stops following a loop.
MaxChunks == MaxTextLen + 1

(***************************************************************************)
(* DocumentParser.chunk_text: steps.                                       *)
(***************************************************************************)
\* Entry: the short-text return, or the loop set-up.
ChunkCall ==
    /\ cpc = "call"
    /\ IF Len(text) <= chunk_size
       THEN /\ chunks' = <<text>>
            /\ cpc' = "done"
            /\ UNCHANGED <<start, cuts>>
       ELSE /\ chunks' = <<>>
            /\ start' = 0
            /\ cpc' = "loop"
            /\ UNCHANGED cuts
    /\ UNCHANGED <<text, chunk_size, overlap>>

\* One iteration of the while loop.
ChunkLoop ==
    /\ cpc = "loop"
    /\ start < Len(text)
    /\ Len(chunks) < MaxChunks
    /\ LET w == Window(text, start, chunk_size)
       IN /\ chunks' = Append(chunks, Strip(w.chunk))
          /\ cuts' = Append(cuts, <<start, w.end>>)
          /\ start' = NextStart(w.end, overlap)
    /\ UNCHANGED <<text, chunk_size, overlap, cpc>>

\* The loop condition fails: return chunks.
ChunkReturn ==
    /\ cpc = "loop"
    /\ start >= Len(text)
    /\ cpc' = "done"
    /\ UNCHANGED <<text, chunk_size, overlap, start, chunks, cuts>>

StoreIdle ==
    /\ index = NoIndex
    /\ metadata = <<>>
    /\ embedDim = Dimension
    /\ indexFile = AbsentIndexFile
    /\ metaFile = AbsentMetaFile
    /\ outcome = Done("construct", "none", <<>>)

ChunkInit ==
    /\ text \in SeqsUpTo(Chars, MaxTextLen)
    /\ chunk_size \in 1..MaxChunkSize
    /\ overlap \in 0..MaxChunkSize
    /\ start = 0
    /\ chunks = <<>>
    /\ cuts = <<>>
    /\ cpc = "call"
    /\ StoreIdle

ChunkNext ==
    \/ ChunkCall /\ UNCHANGED storeVars
    \/ ChunkLoop /\ UNCHANGED storeVars
    \/ ChunkReturn /\ UNCHANGED storeVars

ChunkSpec == ChunkInit /\ [][ChunkNext]_vars

\* A store built on an empty model directory.
FreshInit ==
    /\ indexFile = AbsentIndexFile
    /\ metaFile = AbsentMetaFile
    /\ embedDim \in EmbedDims
    /\ index = NoIndex
    /\ metadata = <<>>
    /\ outcome = Done("construct", "none", <<>>)
    /\ ChunkIdle

FreshSpec == FreshInit /\ [][Next]_vars

(***************************************************************************)
(* Properties of the vector store.                                         *)
(***************************************************************************)
Aligned == Len(metadata) = NTotal(index)

\* C1: every add_documents call that starts with as many metadata records as
\* vectors ends with as many metadata records as vectors (so from an empty
\* store the two lengths agree after every call).
C1_AddKeepsAligned == [][(AddDocuments /\ Aligned) => Aligned']_vars

\* C2: an add_documents call whose metadata list is given with a length
\* other than len(texts) raises ArgumentMismatch and changes neither the
\* index nor the metadata list.
C2_MismatchRejected ==
    [][\A texts \in SeqsUpTo(DocTexts, MaxBatch),
          recs \in SeqsUpTo(CallerRecords, MaxBatch) :
            (Len(recs) # Len(texts) /\ AddDocumentsCall(texts, TRUE, recs))
                => (outcome'.err = "ArgumentMismatch"
                    /\ UNCHANGED <<index, metadata>>)]_vars

\* The store a new process would build on the files as they are after a step.
Reloaded == LoadIndex(indexFile', metaFile')

\* Same vectors at the same positions, same records in the same order, and
\* the same answer to every search.
ReloadedSame ==
    /\ Reloaded.index.present = index'.present
    /\ Reloaded.index.vecs = index'.vecs
    /\ Reloaded.metadata = metadata'
    /\ \A query \in Queries, k \in 1..MaxK :
          Search(Reloaded.index, Reloaded.metadata, embedDim', query, k)
              = Search(index', metadata', embedDim', query, k)

\* save() was reached by add_documents calls only: the store holds an index,
\* or it is empty and the directory holds nothing to load.
SavedByAdds == index.present \/ ~LoadIndex(indexFile, metaFile).index.present

\* C3 as stated: after save() with default paths, a store built on the same
\* directory holds the same vectors and records and answers every search
\* the same way.
C3_RoundTrip ==
    [][(outcome'.op = "save" /\ SaveCall(TRUE, TRUE) /\ SavedByAdds)
            => ReloadedSame]_vars

\* Records json.dump / json.load give back unchanged.
JsonStable(recs) == \A i \in 1..Len(recs) : recs[i].ktype = "str"

\* C3 amended: the round trip holds when every metadata record has string
\* keys (as the default records have).
C3_RoundTripJsonStable ==
    [][(outcome'.op = "save" /\ SaveCall(TRUE, TRUE) /\ SavedByAdds
            /\ JsonStable(metadata))
            => ReloadedSame]_vars

C3_Witness ==
    /\ outcome.op = "save"
    /\ NTotal(index) >= 2
    /\ Len(metadata) >= 2
    /\ JsonStable(metadata)
    /\ indexFile = WriteIndex(index)
    /\ metaFile = WriteMetadata(metadata)
    /\ LoadIndex(indexFile, metaFile) = [index |-> index, metadata |-> metadata]

BothParse == indexFile.state = "ok" /\ metaFile.state = "ok"

\* C4: construction raises nothing; with both files present and parsed the
\* store holds the file contents, in every other case it has no index and an
\* empty metadata list.
C4_LoadAllOrNothing ==
    outcome.op = "construct" =>
        /\ outcome.err = "none"
        /\ BothParse => /\ index.present
                        /\ index.vecs = indexFile.vecs
                        /\ metadata = metaFile.recs
        /\ ~BothParse => index = NoIndex /\ metadata = <<>>

C4_Witness ==
    /\ outcome.op = "construct"
    /\ indexFile.state = "ok"
    /\ NTotal(ReadIndex(indexFile)) >= 1
    /\ metaFile.state = "corrupt"
    /\ index = NoIndex
    /\ metadata = <<>>

\* C5: search on a store without vectors returns the empty list, raises
\* nothing and leaves the index, the metadata and the files as they were.
C5_EmptySearch ==
    [][(outcome'.op = "search" /\ NTotal(index) = 0 /\ SearchStore)
            => (/\ outcome'.ret = <<>>
                /\ outcome'.err = "none"
                /\ UNCHANGED <<index, metadata, indexFile, metaFile>>)]_vars

C5_Witness ==
    /\ outcome.op = "search"
    /\ outcome.ret = <<>>
    /\ ~index.present
    /\ indexFile.state = "ok"
    /\ NTotal(ReadIndex(indexFile)) >= 1

\* C6: on a store holding n >= 1 vectors, a search with k >= 1 that returns
\* gives exactly min(k, n) results.
C6_ClampedCount ==
    [][\A query \in Queries, k \in 1..MaxK :
          (outcome'.op = "search" /\ outcome'.err = "none" /\ NTotal(index) >= 1
                /\ SearchCall(query, k))
              => Len(outcome'.ret) = Min(k, NTotal(index))]_vars

\* C10: an add_documents call that fails on the embedding dimension leaves
\* the index (absent, or its vectors) and the metadata list as they were.
C10_FailedAddChangesNothing ==
    [][(AddDocuments /\ outcome'.err = "AssertionError")
            => UNCHANGED <<index, metadata>>]_vars

(***************************************************************************)
(* Properties of chunk_text.                                               *)
(***************************************************************************)
\* C7: with overlap >= chunk_size on a text longer than chunk_size the call
\* ends at once with InvalidArgument; it never enters the loop.
C7_RejectsWideOverlap ==
    (overlap >= chunk_size /\ Len(text) > chunk_size /\ cpc # "call")
        => cpc = "InvalidArgument"

\* C8: with 0 <= overlap < chunk_size every iteration of the loop moves
\* start forward.
C8_StartAdvances ==
    [][(ChunkLoop /\ 0 <= overlap /\ overlap < chunk_size)
            => start' > start]_vars

\* The claims about the result are about calls that took the loop with
\* 0 <= overlap < chunk_size and returned.
Chunked ==
    /\ cpc = "done"
    /\ Len(text) > chunk_size
    /\ 0 <= overlap
    /\ overlap < chunk_size

\* The span of a chunk not shared with its predecessor: all of the first
\* chunk, the part after the first overlap characters of a later one.
RECURSIVE Spans(_, _, _)
Spans(cs, lap, i) ==
    IF i > Len(cs) THEN <<>>
    ELSE (IF i = 1 THEN cs[i] ELSE SubSeq(cs[i], lap + 1, Len(cs[i])))
            \o Spans(cs, lap, i + 1)

\* C9 as stated: the spans of the chunks, concatenated, are the text.
C9_SpansRebuildText == Chunked => Spans(chunks, overlap, 1) = text

\* Position p (0-based) of the text lies in a window that was cut, and the
\* chunk emitted for that window is the window without its outer whitespace.
Covered(p) ==
    \E i \in 1..Len(cuts) :
        /\ 0 <= cuts[i][1]
        /\ cuts[i][1] <= p
        /\ p < cuts[i][2]
        /\ chunks[i] = Strip(PySlice(text, cuts[i][1], cuts[i][2]))

\* C9 amended: every position of the text lies in a window whose chunk is
\* that window trimmed, so only whitespace at the ends of a window can be
\* missing from the chunks.
C9_WindowsCoverText ==
    Chunked => /\ Len(chunks) = Len(cuts)
               /\ \A p \in 0..(Len(text) - 1) : Covered(p)

C9_Witness ==
    /\ Chunked
    /\ Len(chunks) >= 2
    /\ Spans(chunks, overlap, 1) # text
    /\ \E i \in 1..Len(cuts) :
          /\ cuts[i][2] < Len(text)
          /\ cuts[i][2] - cuts[i][1] < chunk_size

(***************************************************************************)
(* Properties of clear, of the alignment and of the saved files.           *)
(***************************************************************************)
\* C11: every clear() ends with no index and an empty metadata list, and
\* with both persisted files as they were.
C11_ClearResetsMemoryOnly ==
    [][outcome'.op = "clear"
            => (/\ index' = NoIndex
                /\ metadata' = <<>>
                /\ UNCHANGED <<indexFile, metaFile>>)]_vars

C11_Witness ==
    /\ outcome.op = "clear"
    /\ ~index.present
    /\ metadata = <<>>
    /\ indexFile.state = "ok"
    /\ NTotal(ReadIndex(indexFile)) >= 1
    /\ metaFile.state = "ok"
    /\ Len(metaFile.recs) >= 1

\* C12: in every state the store reaches, the metadata list is as long as
\* the index has vectors.
C12_AlwaysAligned == Len(metadata) = NTotal(index)

(***************************************************************************)
(* chunk_text on windows that hold two different terminator pairs.         *)
(***************************************************************************)
MaxTailLen == 4     \* characters at the end of the first window that vary

PairChars == {"a", ".", "!", " "}
PairChunkSize == 2 * MaxChunkSize
PairPad == [i \in 1..(PairChunkSize - MaxTailLen) |-> "a"]
\* The first window is the padding and the tail; two more characters follow.
PairTexts == {PairPad \o tail \o <<"a", "a">> : tail \in [1..MaxTailLen -> PairChars]}

TerminatorInit ==
    /\ text \in PairTexts
    /\ chunk_size = PairChunkSize
    /\ overlap \in {0, 1}
    /\ start = 0
    /\ chunks = <<>>
    /\ cuts = <<>>
    /\ cpc = "call"
    /\ StoreIdle

TerminatorSpec == TerminatorInit /\ [][ChunkNext]_vars

\* The last position in the window at which any terminator pair stands.
LastTerminator(window) ==
    LET found == {RFind(window, Puncts[n]) : n \in 1..Len(Puncts)}
    IN CHOOSE p \in found : \A q \in found : p >= q

\* C13: a window that does not reach the end of the text ends right after
\* the last terminator pair in it when that pair lies in the last 30% of the
\* window, and is left whole otherwise.
C13_CutsAtLastTerminator ==
    \A i \in 1..Len(cuts) :
        LET from == cuts[i][1]
            last == LastTerminator(PySlice(text, from, from + chunk_size))
        IN from + chunk_size < Len(text) =>
              cuts[i][2] = IF InLastPart(last, chunk_size)
                           THEN from + last + 1
                           ELSE from + chunk_size

(***************************************************************************)
(* Properties of the positions of vectors and records.                     *)
(***************************************************************************)
\* The record add_documents is to store for text i of a call.
RecordFor(texts, given, recs, i) ==
    IF given /\ recs # <<>> THEN recs[i] ELSE DefaultRecord(texts[i])

\* C14: a successful add_documents keeps every earlier vector and record at
\* its position and puts vector i and record i of the call at the same new
\* position, the i-th after the earlier ones.
C14_AppendOnlyAligned ==
    [][\A texts \in SeqsUpTo(DocTexts, MaxBatch), given \in BOOLEAN,
          recs \in SeqsUpTo(CallerRecords, MaxBatch) :
            (/\ outcome'.op = "add_documents"
             /\ outcome'.err = "none"
             /\ ~given => recs = <<>>
             /\ AddDocumentsCall(texts, given, recs))
                => /\ SubSeq(index'.vecs, 1, NTotal(index)) = index.vecs
                   /\ SubSeq(metadata', 1, Len(metadata)) = metadata
                   /\ NTotal(index') = NTotal(index) + Len(texts)
                   /\ Len(metadata') = Len(metadata) + Len(texts)
                   /\ Len(metadata) = NTotal(index)
                   /\ \A i \in 1..Len(texts) :
                        /\ index'.vecs[NTotal(index) + i] = Embed(texts[i], embedDim)
                        /\ metadata'[NTotal(index) + i]
                              = RecordFor(texts, given, recs, i)]_vars

\* The positions (1-based) of the stored vectors, and the distance of the
\* vector at a position from the query.
Positions == 1..NTotal(index)
DistanceAt(query, p) == Distance(Embed(query, embedDim), index.vecs[p])

\* near holds count positions, none farther from the query than a position
\* left out.
Nearest(near, query, count) ==
    /\ Cardinality(near) = count
    /\ \A p \in near, q \in Positions \ near :
          DistanceAt(query, p) <= DistanceAt(query, q)

\* ret lists, by non-decreasing distance, exactly the positions of near that
\* have a metadata record, each with its similarity and its own record.
ListsByDistance(ret, near, query) ==
    LET withRecord == {p \in near : p <= Len(metadata)}
    IN \E at \in [1..Len(ret) -> withRecord] :
          /\ \A p \in withRecord : \E j \in 1..Len(ret) : at[j] = p
          /\ \A j, l \in 1..Len(ret) : j # l => at[j] # at[l]
          /\ \A j \in 1..Len(ret) :
                ret[j] = <<Similarity(DistanceAt(query, at[j])), metadata[at[j]]>>
          /\ \A j \in 1..(Len(ret) - 1) :
                DistanceAt(query, at[j]) <= DistanceAt(query, at[j + 1])

\* C15: a search that returns lists the min(k, ntotal) nearest positions by
\* non-decreasing distance, each with the record stored at that position;
\* positions without a metadata record are left out.
C15_ResultsByDistance ==
    [][\A query \in Queries, k \in 1..MaxK :
          (/\ outcome'.op = "search"
           /\ outcome'.err = "none"
           /\ NTotal(index) >= 1
           /\ SearchCall(query, k))
              => \E near \in SUBSET Positions :
                    /\ Nearest(near, query, Min(k, NTotal(index)))
                    /\ ListsByDistance(outcome'.ret, near, query)]_vars

\* The farther vector was stored first and comes second in the result.
C15_Witness ==
    /\ outcome.op = "search"
    /\ Len(outcome.ret) = 2
    /\ index.vecs[1].dir # Direction(<<"a">>)
    /\ outcome.ret[1] = <<Similarity(0), metadata[2]>>
    /\ outcome.ret[2][2] = metadata[1]
    /\ metadata[1] # metadata[2]

\* clear() is called on a store that holds an index and was just saved to
\* the default paths.
ClearsSavedStore ==
    /\ outcome'.op = "clear"
    /\ index.present
    /\ indexFile = WriteIndex(index)
    /\ metaFile = WriteMetadata(metadata)

\* save() is called on a store without index.
SavesWithoutIndex == outcome'.op = "save" /\ ~index.present

\* C16 as stated: save() on a store without index writes nothing, so after
\* add_documents, save(), clear(), save() the files are those of the first
\* save, and a store built on the directory holds the vectors and the
\* records the store held before clear().
C16_PreClearStoreReloads ==
    [][/\ SavesWithoutIndex => UNCHANGED <<indexFile, metaFile>>
       /\ ClearsSavedStore
             => Reloaded = [index |-> index, metadata |-> metadata]]_vars

\* C16 amended: the files are those of the first save, and a store built on
\* the directory holds the pre-clear vectors and the pre-clear records as
\* json.dump wrote them (keys as strings); they are the pre-clear records
\* when every key was a string.
C16_SaveWithoutIndexWritesNothing ==
    [][/\ SavesWithoutIndex => UNCHANGED <<indexFile, metaFile>>
       /\ ClearsSavedStore
             => /\ Reloaded.index = index
                /\ Reloaded.metadata = JsonLoad(JsonDump(metadata))
                /\ JsonStable(metadata) => Reloaded.metadata = metadata]_vars

\* After add_documents, save(), clear(), save(): the store is empty and the
\* files still hold the saved vectors and records.
C16_Witness ==
    /\ outcome.op = "save"
    /\ ~index.present
    /\ metadata = <<>>
    /\ indexFile.state = "ok"
    /\ NTotal(ReadIndex(indexFile)) >= 1
    /\ metaFile.state = "ok"
    /\ Len(metaFile.recs) = NTotal(ReadIndex(indexFile))
    /\ LoadIndex(indexFile, metaFile).index.present

====
